---- MODULE Spec2Model ----
(***************************************************************************)
(* A model of the TypeScript definition-file emitter (src/src/emit.rs):    *)
(* the expression serializer (the Emit impls), the per-definition          *)
(* declaration writer (EmitCtx::emit_type) and the module orchestrator     *)
(* (write_definition_file), together with the dependency walker            *)
(* (crate::iter_def_deps::IterDefDeps) that emit_type iterates.            *)
(*                                                                         *)
(* Output text is a sequence of tokens: one token per piece that a write!  *)
(* or writeln! hands to the sink (a literal piece of the format string or  *)
(* one formatted argument).  A write failure can strike before any token.  *)
(***************************************************************************)
EXTENDS Integers, Sequences, FiniteSets, TLC

(* ------------------------------ bounds -------------------------------- *)
\* number of distinct TypeDefinition identities in a graph
NumDefs == 2
\* longest member / element / generic-argument list drawn for an input
MaxLen == 2

(* ----------------------- Option<T> and helpers ------------------------ *)
None == <<>>
Some(x) == <<x>>
IsSome(o) == o # <<>>
Unwrap(o) == o[1]

RECURSIVE Flatten(_)
\* concatenation of a sequence of token sequences
Flatten(ss) == IF ss = <<>> THEN <<>> ELSE Head(ss) \o Flatten(Tail(ss))

SeqsUpTo(S, n) == UNION {[1..k -> S] : k \in 0..n}

DefIds == 1..NumDefs

(* --------------------------- Type graph IR ---------------------------- *)
\* TypeInfo::Native(NativeTypeInfo { ref })
NativeInfo(e) == [tag |-> "Native", ref |-> e]
\* TypeInfo::Defined(DefinedTypeInfo { def, generic_args }); def is the
\* identity of the TypeDefinition
DefinedInfo(d, args) == [tag |-> "Defined", def |-> d, generic_args |-> args]

TRef(info) == [kind |-> "Ref", info |-> info]
TName(path, name, args) ==
    [kind |-> "Name", path |-> path, name |-> name, generic_args |-> args]
TString(docs, value) == [kind |-> "String", docs |-> docs, value |-> value]
TTuple(docs, elements) == [kind |-> "Tuple", docs |-> docs, elements |-> elements]
TObject(docs, fields) == [kind |-> "Object", docs |-> docs, fields |-> fields]
TArray(docs, item) == [kind |-> "Array", docs |-> docs, item |-> item]
TUnion(docs, members) == [kind |-> "Union", docs |-> docs, members |-> members]
TIntersection(docs, members) ==
    [kind |-> "Intersection", docs |-> docs, members |-> members]
ObjectField(docs, name, optional, type) ==
    [docs |-> docs, name |-> name, optional |-> optional, type |-> type]

RefD(d, args) == TRef(DefinedInfo(d, args))
RefN(e) == TRef(NativeInfo(e))

\* TypeDefinition { docs, path, name, generic_vars, def }
TypeDefinition(docs, path, name, vars, def) ==
    [docs |-> docs, path |-> path, name |-> name, generic_vars |-> vars, def |-> def]

\* DefinitionFileOptions { header, root_namespace }
DefinitionFileOptions(header, root_namespace) ==
    [header |-> header, root_namespace |-> root_namespace]

(* ------------------------ Expression serializer ----------------------- *)
\* impl Emit for Ident: write!(ctx.w, "{}", name)
IdentEmit(name) == <<name>>

\* impl Emit for Docs: a blank line, the comment opener, one prefixed line
\* per line of the text, the comment closer
DocsEmit(lines) ==
    <<"\n", "/**\n">>
    \o Flatten([i \in 1..Len(lines) |-> <<" * ", lines[i], "\n">>])
    \o <<" */\n">>

\* impl Emit for Option<T>, at T = Docs
OptDocsEmit(docs) == IF IsSome(docs) THEN DocsEmit(Unwrap(docs)) ELSE <<>>

\* a separator after every element, the last one included
SepListEmitTrailing(parts, separator) ==
    Flatten([i \in 1..Len(parts) |-> parts[i] \o <<separator>>])

\* impl Emit for SepList: the `first` flag puts the separator before every
\* element except the first one.  parts[i] is the text of element i.
SepListEmit(parts, separator) ==
    Flatten([i \in 1..Len(parts) |->
                (IF i # 1 THEN <<separator>> ELSE <<>>) \o parts[i]])

\* impl Emit for Generics
GenericsEmit(parts) ==
    IF parts # <<>> THEN <<"<">> \o SepListEmit(parts, ",") \o <<">">> ELSE <<>>

\* for path_part in *path { path_part.emit(ctx)?; write!(ctx.w, ".")?; }
PathPrefixEmit(path) ==
    Flatten([i \in 1..Len(path) |-> IdentEmit(path[i]) \o <<".">>])

\* write!(ctx.w, "{:?}", value): the Debug form of a str is the text in
\* double quotes, with a double quote or a backslash in it escaped
DebugFmt(value) ==
    CASE value = "q\"" -> "\"q\\\"\""
      [] value = "\\" -> "\"\\\\\""
      [] OTHER -> "\"" \o value \o "\""

\* impl Emit for TypeString
TypeStringEmit(docs, value) == OptDocsEmit(docs) \o <<DebugFmt(value)>>

\* impl Emit for TypeName
TypeNameEmit(path, name, argParts) ==
    PathPrefixEmit(path) \o IdentEmit(name) \o GenericsEmit(argParts)

\* impl Emit for TypeTuple
TypeTupleEmit(docs, parts) ==
    OptDocsEmit(docs) \o <<"[">> \o SepListEmit(parts, ",") \o <<"]">>

\* impl Emit for TypeArray
TypeArrayEmit(docs, itemPart) ==
    OptDocsEmit(docs) \o <<"(">> \o itemPart \o <<")[]">>

\* a union whose empty case writes the top type
TypeUnionEmitAny(docs, parts) ==
    OptDocsEmit(docs)
    \o (IF parts = <<>> THEN <<"any">>
        ELSE <<"(">> \o SepListEmit(parts, "|") \o <<")">>)

\* impl Emit for TypeUnion
TypeUnionEmit(docs, parts) ==
    OptDocsEmit(docs)
    \o (IF parts = <<>> THEN <<"never">>
        ELSE <<"(">> \o SepListEmit(parts, "|") \o <<")">>)

\* impl Emit for TypeIntersection
TypeIntersectionEmit(docs, parts) ==
    OptDocsEmit(docs)
    \o (IF parts = <<>> THEN <<"any">>
        ELSE <<"(">> \o SepListEmit(parts, "&") \o <<")">>)

\* one field of impl Emit for TypeObject; the field name is a TypeString
ObjectFieldEmit(f, typePart) ==
    OptDocsEmit(f.docs) \o TypeStringEmit(f.name.docs, f.name.value)
    \o (IF f.optional THEN <<"?">> ELSE <<>>)
    \o <<":">> \o typePart \o <<";">>

\* impl Emit for TypeObject
TypeObjectEmit(docs, fields, typeParts) ==
    OptDocsEmit(docs) \o <<"{">>
    \o Flatten([i \in 1..Len(fields) |-> ObjectFieldEmit(fields[i], typeParts[i])])
    \o <<"}">>

\* a reference that leaves out its generic arguments
RefDefinedEmitBare(root_namespace, def, argParts) ==
    (IF IsSome(root_namespace) THEN <<Unwrap(root_namespace), ".">> ELSE <<>>)
    \o PathPrefixEmit(def.path)
    \o IdentEmit(def.name)

\* a reference that leaves out the root namespace
RefDefinedEmitUnrooted(root_namespace, def, argParts) ==
    PathPrefixEmit(def.path) \o IdentEmit(def.name) \o GenericsEmit(argParts)

\* impl Emit for TypeExpr, the Ref(Defined) arm: root namespace prefix,
\* each path segment followed by a dot, the name, the generic arguments
RefDefinedEmit(root_namespace, def, argParts) ==
    (IF IsSome(root_namespace) THEN <<Unwrap(root_namespace), ".">> ELSE <<>>)
    \o PathPrefixEmit(def.path)
    \o IdentEmit(def.name)
    \o GenericsEmit(argParts)

RECURSIVE TypeExprEmit(_, _, _)
\* impl Emit for TypeExpr.  rn is ctx.options.root_namespace; g maps the
\* identity held by a Defined TypeInfo to its TypeDefinition.
TypeExprEmit(e, rn, g) ==
    LET Parts(es) == [i \in 1..Len(es) |-> TypeExprEmit(es[i], rn, g)]
    IN CASE e.kind = "Ref" ->
              IF e.info.tag = "Native"
              THEN TypeExprEmit(e.info.ref, rn, g)
              ELSE RefDefinedEmit(rn, g[e.info.def], Parts(e.info.generic_args))
         [] e.kind = "Name" -> TypeNameEmit(e.path, e.name, Parts(e.generic_args))
         [] e.kind = "String" -> TypeStringEmit(e.docs, e.value)
         [] e.kind = "Tuple" -> TypeTupleEmit(e.docs, Parts(e.elements))
         [] e.kind = "Object" ->
              TypeObjectEmit(e.docs, e.fields,
                  [i \in 1..Len(e.fields) |-> TypeExprEmit(e.fields[i].type, rn, g)])
         [] e.kind = "Array" -> TypeArrayEmit(e.docs, TypeExprEmit(e.item, rn, g))
         [] e.kind = "Union" -> TypeUnionEmit(e.docs, Parts(e.members))
         [] e.kind = "Intersection" -> TypeIntersectionEmit(e.docs, Parts(e.members))

(* -------------------------- Declaration text -------------------------- *)
\* one nested block per path segment
NamespaceOpenEmitNested(path) ==
    Flatten([i \in 1..Len(path) |-> <<"export namespace ", path[i], "{">>])

\* if !path.is_empty() { "export namespace " SepList(path, ".") "{" }
NamespaceOpenEmit(path) ==
    IF path # <<>>
    THEN <<"export namespace ">>
         \o SepListEmit([i \in 1..Len(path) |-> IdentEmit(path[i])], ".")
         \o <<"{">>
    ELSE <<>>

\* if !path.is_empty() { "}" }
NamespaceCloseEmit(path) == IF path # <<>> THEN <<"}">> ELSE <<>>

\* the head of a declaration: "export type " name Generics(generic_vars) "="
ExportTypeHeadEmit(def) ==
    <<"export type ">> \o IdentEmit(def.name)
    \o GenericsEmit([i \in 1..Len(def.generic_vars) |-> IdentEmit(def.generic_vars[i])])
    \o <<"=">>

\* the body of the for loop of EmitCtx::emit_type: everything written for
\* one TypeDefinition
DeclEmit(def, rn, g) ==
    OptDocsEmit(def.docs)
    \o NamespaceOpenEmit(def.path)
    \o ExportTypeHeadEmit(def)
    \o TypeExprEmit(def.def, rn, g)
    \o <<";">>
    \o NamespaceCloseEmit(def.path)
    \o <<"\n">>

(* ---------------------- Dependency closure walker --------------------- *)
\* The expressions directly nested in e, which the walker goes on to
\* visit: a Native TypeInfo's wrapped expression, generic arguments, tuple
\* elements, object field types, the array item, union and intersection
\* members.  A Defined TypeInfo's template is handled by IterVisit.
IterChildren(e) ==
    CASE e.kind = "Ref" ->
           IF e.info.tag = "Native" THEN <<e.info.ref>> ELSE e.info.generic_args
      [] e.kind = "Name" -> e.generic_args
      [] e.kind = "String" -> <<>>
      [] e.kind = "Tuple" -> e.elements
      [] e.kind = "Object" -> [i \in 1..Len(e.fields) |-> e.fields[i].type]
      [] e.kind = "Array" -> <<e.item>>
      [] e.kind = "Union" -> e.members
      [] e.kind = "Intersection" -> e.members

\* a stack entry that makes the walker hand out definition d once
\* everything below it has been walked
YieldEntry(d) == [kind |-> "Yield", def |-> d]

IsDefinedRef(e) == e.kind = "Ref" /\ e.info.tag = "Defined"

\* IterDefDeps::new(info): nothing visited, the root to be walked
IterNew(info) == [stack |-> <<TRef(info)>>, visited |-> {}]

\* a walker that does not mark a definition when it first meets it
IterMarkNot(visited, d) == visited

\* The visited set after the walker meets a reference to definition d: d
\* is marked on this first meeting, before its body is walked.
IterMark(visited, d) == visited \cup {d}

\* One turn of the walker's loop on the popped expression e: the stack
\* (top is the last element) and the visited set afterwards.  A definition
\* met for the first time is marked, then its body is pushed above the
\* entry that yields it; a definition already marked is not entered again.
IterVisit(e, rest, visited, g) ==
    IF IsDefinedRef(e) /\ e.info.def \notin visited
    THEN [stack |-> rest \o <<YieldEntry(e.info.def)>>
                        \o <<g[e.info.def].def>> \o IterChildren(e),
          visited |-> IterMark(visited, e.info.def)]
    ELSE [stack |-> rest \o IterChildren(e), visited |-> visited]

(* ------------------------------- State -------------------------------- *)
VARIABLES
    graph,      \* the immutable type graph: identity -> TypeDefinition
    root,       \* T::INFO, the root TypeInfo
    options,    \* DefinitionFileOptions
    pc,         \* position in write_definition_file
    fallible,   \* the writer W can fail (a file, a pipe); a Vec<u8> cannot
    sink,       \* the tokens the writer has accepted in this invocation
    ioerr,      \* the writer has returned an error in this invocation
    stats,      \* ctx.stats.type_definitions
    stack,      \* the walker's pending entries
    visited,    \* the walker's visited set
    decls,      \* per declaration begun: the definition and its extent in sink
    result,     \* what write_definition_file returned
    run,        \* which invocation this is
    prev        \* what the previous invocation returned and wrote, if it succeeded

vars == <<graph, root, options, fallible, pc, sink, ioerr, stats, stack, visited, decls,
          result, run, prev>>

Pending == [tag |-> "Pending", stats |-> 0]
Ok(n) == [tag |-> "Ok", stats |-> n]
Err == [tag |-> "Err", stats |-> 0]

(* -------------------------- write_definition_file --------------------- *)
\* a counter that outlives the call that counted
EmitCtxNewCarry(w, opts) ==
    [w |-> w, options |-> opts, stats |-> IF pc = "done" THEN stats ELSE 0]

\* EmitCtx::new(w, options): the counter starts at 0
EmitCtxNew(w, opts) == [w |-> w, options |-> opts, stats |-> 0]

\* a write whose error is dropped
TryIgnore(ok, next) == next

\* the `?` after a write: go on to `next` when the write succeeded, return
\* from write_definition_file otherwise
Try(ok, next) == IF ok THEN next ELSE "done"

\* what write_definition_file returns once control reaches "done"
Returned(ok, n) == IF ok THEN Ok(n) ELSE Err

\* writeln!(ctx.w, "{}", header) when header is Some
HeaderEmit(opts) ==
    IF IsSome(opts.header) THEN <<Unwrap(opts.header), "\n">> ELSE <<>>

\* the default export and the opening of the root namespace
RootOpenEmit(opts) ==
    IF IsSome(opts.root_namespace)
    THEN <<"export default ", Unwrap(opts.root_namespace), ";\n",
           "export namespace ", Unwrap(opts.root_namespace), "{\n">>
    ELSE <<>>

\* a closing brace written whether or not a block was opened
RootCloseEmitAlways(opts) == <<"}\n">>

\* the closing brace of the root namespace
RootCloseEmit(opts) == IF IsSome(opts.root_namespace) THEN <<"}\n">> ELSE <<>>

\* a loop body that forgets to count
CountDeclNone(n) == n

\* stats.type_definitions += 1
CountDecl(n) == n + 1

\* how many of the tokens toks the writer may take before it fails
Accepts(toks) == IF fallible THEN 0..Len(toks) ELSE {Len(toks)}

\* The writer takes the first k tokens of toks and fails on the next one
\* (k = Len(toks): it takes them all).
WriteTokens(toks, k, next) ==
    /\ sink' = sink \o SubSeq(toks, 1, k)
    /\ ioerr' = (k < Len(toks))
    /\ pc' = Try(k = Len(toks), next)
    /\ result' = IF pc' = "done" THEN Returned(k = Len(toks), stats') ELSE result

\* lines 515-518: the header
WriteHeader ==
    /\ pc = "header"
    /\ stats' = stats
    /\ \E k \in Accepts(HeaderEmit(options)) :
          WriteTokens(HeaderEmit(options), k, "open")
    /\ UNCHANGED <<graph, root, options, fallible, stack, visited, decls, run, prev>>

\* lines 519-522: default export and root namespace opening
WriteRootOpen ==
    /\ pc = "open"
    /\ stats' = stats
    /\ \E k \in Accepts(RootOpenEmit(options)) :
          WriteTokens(RootOpenEmit(options), k, "emit_type")
    /\ UNCHANGED <<graph, root, options, fallible, stack, visited, decls, run, prev>>

\* line 523 and line 453: emit_type creates the walker for the root
EmitTypeBegin ==
    /\ pc = "emit_type"
    /\ stack' = IterNew(root).stack
    /\ visited' = IterNew(root).visited
    /\ pc' = "walk"
    /\ UNCHANGED <<graph, root, options, fallible, sink, ioerr, stats, decls, result, run, prev>>

\* inside IterDefDeps::next: one expression popped and walked
IterStep ==
    /\ pc = "walk"
    /\ stack # <<>>
    /\ stack[Len(stack)].kind # "Yield"
    /\ LET r == IterVisit(stack[Len(stack)], SubSeq(stack, 1, Len(stack) - 1),
                          visited, graph)
       IN stack' = r.stack /\ visited' = r.visited
    /\ UNCHANGED <<graph, root, options, fallible, pc, sink, ioerr, stats, decls, result,
                   run, prev>>

\* lines 447-472: the walker yields a definition and the loop body writes
\* its declaration
EmitDecl ==
    /\ pc = "walk"
    /\ stack # <<>>
    /\ stack[Len(stack)].kind = "Yield"
    /\ LET d == stack[Len(stack)].def
           toks == DeclEmit(graph[d], options.root_namespace, graph)
       IN /\ stack' = SubSeq(stack, 1, Len(stack) - 1)
          /\ stats' = CountDecl(stats)
          /\ \E k \in Accepts(toks) :
                /\ WriteTokens(toks, k, "walk")
                /\ decls' = Append(decls, [def |-> d, from |-> Len(sink) + 1,
                                                      to |-> Len(sink) + k])
    /\ UNCHANGED <<graph, root, options, fallible, visited, run, prev>>

\* line 473: the walker is exhausted, emit_type returns Ok(())
EmitTypeEnd ==
    /\ pc = "walk"
    /\ stack = <<>>
    /\ pc' = "close"
    /\ UNCHANGED <<graph, root, options, fallible, sink, ioerr, stats, stack, visited, decls,
                   result, run, prev>>

\* lines 524-527: the closing brace, then Ok(ctx.stats)
WriteRootClose ==
    /\ pc = "close"
    /\ stats' = stats
    /\ \E k \in Accepts(RootCloseEmit(options)) :
          WriteTokens(RootCloseEmit(options), k, "done")
    /\ UNCHANGED <<graph, root, options, fallible, stack, visited, decls, run, prev>>

\* The caller invokes write_definition_file again, on the same graph with
\* the same options and a new empty writer.
Reinvoke ==
    /\ pc = "done"
    /\ run = "first"
    /\ run' = "second"
    /\ prev' = IF result.tag = "Ok" THEN Some([sink |-> sink, result |-> result])
               ELSE None
    /\ pc' = "header"
    /\ sink' = <<>>
    /\ ioerr' = FALSE
    /\ stats' = EmitCtxNew(<<>>, options).stats
    /\ stack' = <<>>
    /\ visited' = {}
    /\ decls' = <<>>
    /\ result' = Pending
    /\ UNCHANGED <<graph, root, options, fallible>>

Next ==
    \/ WriteHeader
    \/ WriteRootOpen
    \/ EmitTypeBegin
    \/ IterStep
    \/ EmitDecl
    \/ EmitTypeEnd
    \/ WriteRootClose
    \/ Reinvoke

(* ------------------------------- Inputs ------------------------------- *)
\* The fixed attributes of the definition with identity d.  Identities 1
\* and 3 carry the same path, name and generic variables: two definitions
\* can agree in content and still be distinct.
DefDocs(d) == IF d % 2 = 0 THEN Some(<<"doc">>) ELSE None
DefPath(d) == IF d % 2 = 0 THEN <<"x", "y">> ELSE <<>>
DefName(d) == IF d % 2 = 0 THEN "B" ELSE "A"
DefVars(d) == IF d % 2 = 0 THEN <<"T", "U">> ELSE <<>>
MkDef(d, body) == TypeDefinition(DefDocs(d), DefPath(d), DefName(d), DefVars(d), body)

Succ(d) == (d % NumDefs) + 1

TStringLit(v) == TString(None, v)
Prim(n) == TName(<<>>, n, <<>>)

\* Node = { "value": number; "next"?: Ref(t) }
ObjNext(t) ==
    TObject(None, <<ObjectField(None, TStringLit("value"), FALSE, Prim("number")),
                    ObjectField(None, TStringLit("next"), TRUE, RefD(t, <<>>))>>)
\* two references to t with different generic arguments, one of which is
\* the only place that refers to the successor of t
Generic2(t) ==
    TTuple(None, <<RefD(t, <<TStringLit("a")>>), RefD(t, <<RefD(Succ(t), <<>>)>>)>>)
\* a reference to t that sits inside a Native TypeInfo
NativeArr(t) == RefN(TArray(None, RefD(t, <<>>)))

BodyPool ==
    {Prim("string")}
    \cup {ObjNext(t) : t \in DefIds}
    \cup {Generic2(t) : t \in DefIds}
    \cup {NativeArr(t) : t \in DefIds}

RootPool ==
    {DefinedInfo(d, <<>>) : d \in DefIds}
    \cup {DefinedInfo(1, <<RefD(NumDefs, <<>>)>>),
          NativeInfo(TUnion(None, <<NativeArr(1), Prim("string")>>))}

OptionsPool ==
    {DefinitionFileOptions(h, r) :
        h \in {None, Some("// AUTO-GENERATED\n")}, r \in {None, Some("types")}}

Graphs == {[d \in DefIds |-> MkDef(d, b[d])] : b \in [DefIds -> BodyPool]}

InitCall ==
    /\ pc = "header"
    /\ sink = <<>>
    /\ ioerr = FALSE
    /\ stats = EmitCtxNew(<<>>, options).stats
    /\ stack = <<>>
    /\ visited = {}
    /\ decls = <<>>
    /\ result = Pending
    /\ run = "first"
    /\ prev = None

Init ==
    /\ graph \in Graphs
    /\ root \in RootPool
    /\ options \in OptionsPool
    /\ fallible = TRUE
    /\ InitCall

Spec == Init /\ [][Next]_vars

\* Emission into a writer that cannot fail, where only the walker decides
\* whether the call returns.
InitReliable ==
    /\ graph \in Graphs
    /\ root \in RootPool
    /\ options = DefinitionFileOptions(Some("// AUTO-GENERATED\n"), Some("types"))
    /\ fallible = FALSE
    /\ InitCall

\* The program is sequential and waits on nothing: it keeps taking steps.
FairSpec == InitReliable /\ [][Next]_vars /\ WF_vars(Next)

(* -------------------- Inputs for the serializer alone ----------------- *)
Atoms == {Prim("string"), TStringLit("a"), TStringLit("b"), RefD(NumDefs, <<>>)}
AtomLists == SeqsUpTo(Atoms, MaxLen)

\* every kind that holds a list, over every list of atoms
ListExprs ==
    UNION {{TTuple(None, l), TUnion(None, l), TIntersection(None, l),
            RefD(NumDefs, l), TName(<<"ns">>, "G", l)} : l \in AtomLists}

\* an empty union, an empty intersection and the union of two string
\* literals, side by side in one body
DegenerateSample ==
    TTuple(None, <<TUnion(None, <<>>),
                   TIntersection(None, <<TUnion(None, <<TStringLit("a"), TStringLit("b")>>),
                                         TIntersection(None, <<>>)>>)>>)

Exprs1 ==
    Atoms \cup ListExprs \cup {DegenerateSample}
    \cup {TString(Some(<<"s">>), "q\""), TUnion(Some(<<"u", "v">>), <<>>),
          TIntersection(Some(<<>>), <<>>)}

\* one more level of nesting around each of them
Exprs2 ==
    Exprs1
    \cup UNION {{TArray(None, e), RefN(e), TUnion(Some(<<"u">>), <<e>>),
                TIntersection(None, <<Prim("string"), e>>),
                TObject(None, <<ObjectField(Some(<<"f">>), TStringLit("k"), TRUE, e)>>)}
               : e \in Exprs1}

\* one definition with a body out of Exprs2 is the root; the others are
\* plain aliases
InitRender ==
    /\ \E r \in DefIds, b \in Exprs2 :
          /\ graph = [d \in DefIds |-> MkDef(d, IF d = r THEN b ELSE Prim("string"))]
          /\ root = DefinedInfo(r, <<>>)
    /\ options \in {DefinitionFileOptions(None, rn) : rn \in {None, Some("types")}}
    /\ fallible = TRUE
    /\ InitCall

RenderSpec == InitRender /\ [][Next]_vars

(* ---------------- Vocabulary for stating the properties --------------- *)
DoneOk == pc = "done" /\ result.tag = "Ok"

RECURSIVE DirectRefs(_)
\* the identities an expression refers to without entering any body
DirectRefs(e) ==
    LET Of(es) == UNION {DirectRefs(es[i]) : i \in 1..Len(es)}
    IN CASE e.kind = "Ref" ->
              IF e.info.tag = "Native" THEN DirectRefs(e.info.ref)
              ELSE {e.info.def} \cup Of(e.info.generic_args)
         [] e.kind = "Name" -> Of(e.generic_args)
         [] e.kind = "String" -> {}
         [] e.kind = "Tuple" -> Of(e.elements)
         [] e.kind = "Object" ->
              UNION {DirectRefs(e.fields[i].type) : i \in 1..Len(e.fields)}
         [] e.kind = "Array" -> DirectRefs(e.item)
         [] e.kind = "Union" -> Of(e.members)
         [] e.kind = "Intersection" -> Of(e.members)

RECURSIVE Closure(_, _)
\* least set that holds R and the direct references of every body in it
Closure(R, g) ==
    LET R2 == R \cup UNION {DirectRefs(g[d].def) : d \in R}
    IN IF R2 = R THEN R ELSE Closure(R2, g)

\* the definitions reachable from the root TypeInfo
Reachable == Closure(DirectRefs(TRef(root)), graph)

RECURSIVE DefinedRefs(_)
\* every Ref(Defined) node that occurs in an expression
DefinedRefs(e) ==
    LET Of(es) == UNION {DefinedRefs(es[i]) : i \in 1..Len(es)}
    IN CASE e.kind = "Ref" ->
              IF e.info.tag = "Native" THEN DefinedRefs(e.info.ref)
              ELSE {e} \cup Of(e.info.generic_args)
         [] e.kind = "Name" -> Of(e.generic_args)
         [] e.kind = "String" -> {}
         [] e.kind = "Tuple" -> Of(e.elements)
         [] e.kind = "Object" ->
              UNION {DefinedRefs(e.fields[i].type) : i \in 1..Len(e.fields)}
         [] e.kind = "Array" -> DefinedRefs(e.item)
         [] e.kind = "Union" -> Of(e.members)
         [] e.kind = "Intersection" -> Of(e.members)

\* the Ref(Defined) nodes that the output renders: those in the bodies of
\* the declared definitions
RenderedRefs == UNION {DefinedRefs(graph[decls[i].def].def) : i \in 1..Len(decls)}

RECURSIVE Interleave(_, _)
\* s1 sep s2 sep ... sn
Interleave(parts, sep) ==
    IF parts = <<>> THEN <<>>
    ELSE IF Len(parts) = 1 THEN parts[1]
    ELSE parts[1] \o <<sep>> \o Interleave(Tail(parts), sep)

StartsWith(t, s) == Len(s) <= Len(t) /\ SubSeq(t, 1, Len(s)) = s
EndsWith(t, s) == Len(s) <= Len(t) /\ SubSeq(t, Len(t) - Len(s) + 1, Len(t)) = s
IsInfix(s, t) == \E i \in 1..(Len(t) - Len(s) + 1) : SubSeq(t, i, i + Len(s) - 1) = s
CountTok(t, tok) == Cardinality({i \in 1..Len(t) : t[i] = tok})

\* the text of the i-th declaration as it stands in the sink
DeclText(i) == SubSeq(sink, decls[i].from, decls[i].to)
DeclaredDefs == {decls[i].def : i \in 1..Len(decls)}
Renders(es) == [i \in 1..Len(es) |-> TypeExprEmit(es[i], options.root_namespace, graph)]

(* ------------------------------- C1 ----------------------------------- *)
\* C1: a successful write_definition_file has written exactly one
\* declaration for each definition reachable from the root (through
\* Defined templates, generic arguments, nested body expressions and the
\* expression wrapped by a Native TypeInfo), none for any other definition
\* or for a Native TypeInfo, and returns their number as type_definitions.
C1_ExactlyOncePerReachable ==
    DoneOk =>
      /\ DeclaredDefs = Reachable
      /\ Len(decls) = Cardinality(Reachable)
      /\ result.stats = Cardinality(Reachable)
      /\ CountTok(sink, "export type ") = Cardinality(Reachable)
      /\ \A i \in 1..Len(decls) :
            IsInfix(<<"export type ", graph[decls[i].def].name>>, DeclText(i))

\* a successful run from a Native root that reaches a definition only
\* through the wrapped expression, with another definition out of reach
C1_Witness ==
    /\ DoneOk
    /\ root.tag = "Native"
    /\ Reachable # {}
    /\ Reachable # DefIds
    /\ result.stats = Cardinality(Reachable)

(* ------------------------------- C2 ----------------------------------- *)
RECURSIVE ExprSize(_)
\* number of nodes of an expression, bodies of definitions not entered
ExprSize(e) ==
    LET Of(es) == IF es = <<>> THEN 0
                  ELSE LET f[i \in 0..Len(es)] ==
                             IF i = 0 THEN 0 ELSE f[i - 1] + ExprSize(es[i])
                       IN f[Len(es)]
    IN CASE e.kind = "Yield" -> 1
         [] e.kind = "Ref" ->
              IF e.info.tag = "Native" THEN 1 + ExprSize(e.info.ref)
              ELSE 1 + Of(e.info.generic_args)
         [] e.kind = "Name" -> 1 + Of(e.generic_args)
         [] e.kind = "String" -> 1
         [] e.kind = "Tuple" -> 1 + Of(e.elements)
         [] e.kind = "Object" ->
              1 + Of([i \in 1..Len(e.fields) |-> e.fields[i].type])
         [] e.kind = "Array" -> 1 + ExprSize(e.item)
         [] e.kind = "Union" -> 1 + Of(e.members)
         [] e.kind = "Intersection" -> 1 + Of(e.members)

StackWeight(st) ==
    LET f[i \in 0..Len(st)] == IF i = 0 THEN 0 ELSE f[i - 1] + ExprSize(st[i])
    IN f[Len(st)]

\* more than any body weighs, plus the entry that yields the definition
BodyBound ==
    2 + (CHOOSE m \in {ExprSize(graph[d].def) : d \in DefIds} :
            \A d \in DefIds : ExprSize(graph[d].def) <= m)

\* what is left to walk: unmarked definitions first, then pending entries
WalkMeasure(vis, st) == (NumDefs - Cardinality(vis)) * BodyBound + StackWeight(st)

NoDeclTwice ==
    \A i, j \in 1..Len(decls) : decls[i].def = decls[j].def => i = j

\* C2: emission terminates on every graph, cyclic or not.  Every turn of
\* the walker strictly lowers a natural-number measure (definitions not yet
\* marked, then pending stack entries), because a definition is marked
\* before its body is pushed and so is never entered twice; no definition
\* is declared twice; and every invocation reaches its return.
C2_CyclesTerminate ==
    /\ [][(pc = "walk" /\ pc' # "close") =>
             /\ WalkMeasure(visited', stack') < WalkMeasure(visited, stack)
             /\ WalkMeasure(visited', stack') >= 0]_vars
    /\ []NoDeclTwice
    /\ ((pc # "done") ~> (pc = "done"))

\* a finished emission in which a declared definition refers back to itself
\* only through other definitions
C2_Witness ==
    /\ DoneOk
    /\ \E d \in DeclaredDefs :
          /\ d \notin DirectRefs(graph[d].def)
          /\ d \in Closure(DirectRefs(graph[d].def), graph)
    /\ \E d \in DeclaredDefs : d \in DirectRefs(graph[d].def)

(* ------------------------------- C3 ----------------------------------- *)
\* the dotted name a reference to definition d is written with, as tokens
UseSiteName(d) ==
    (IF IsSome(options.root_namespace)
     THEN <<Unwrap(options.root_namespace), ".">> ELSE <<>>)
    \o Flatten([i \in 1..Len(graph[d].path) |-> <<graph[d].path[i], ".">>])
    \o <<graph[d].name>>

\* the angle-bracketed list, or nothing for an empty list
Angle(parts) ==
    IF parts = <<>> THEN <<>> ELSE <<"<">> \o Interleave(parts, ",") \o <<">">>

\* C3: after a successful emission every declared definition has exactly
\* one declaration, whose head is `export type`, the name, the generic
\* variables in angle brackets (only if there are any) and `=`, however
\* many references with different generic arguments target it; every such
\* reference stands in the output with its own generic argument list; and
\* every definition referred to inside a generic argument is declared.
C3_GenericSharing ==
    DoneOk =>
      /\ \A d \in DeclaredDefs :
            /\ Cardinality({i \in 1..Len(decls) : decls[i].def = d}) = 1
            /\ \A i \in 1..Len(decls) :
                  decls[i].def = d =>
                    IsInfix(<<"export type ", graph[d].name>>
                              \o Angle([j \in 1..Len(graph[d].generic_vars) |->
                                          <<graph[d].generic_vars[j]>>])
                              \o <<"=">>,
                            DeclText(i))
      /\ \A r \in RenderedRefs :
            /\ IsInfix(UseSiteName(r.info.def) \o Angle(Renders(r.info.generic_args)),
                       sink)
            /\ r.info.generic_args = <<>> =>
                  ~IsInfix(UseSiteName(r.info.def) \o <<"<">>, TypeExprEmit(r, options.root_namespace, graph))
            /\ \A j \in 1..Len(r.info.generic_args) :
                  DirectRefs(r.info.generic_args[j]) \subseteq DeclaredDefs

RECURSIVE NonArgRefs(_)
\* the identities an expression refers to outside any reference's generic
\* arguments
NonArgRefs(e) ==
    LET Of(es) == UNION {NonArgRefs(es[i]) : i \in 1..Len(es)}
    IN CASE e.kind = "Ref" ->
              IF e.info.tag = "Native" THEN NonArgRefs(e.info.ref) ELSE {e.info.def}
         [] e.kind = "Name" -> Of(e.generic_args)
         [] e.kind = "String" -> {}
         [] e.kind = "Tuple" -> Of(e.elements)
         [] e.kind = "Object" ->
              UNION {NonArgRefs(e.fields[i].type) : i \in 1..Len(e.fields)}
         [] e.kind = "Array" -> NonArgRefs(e.item)
         [] e.kind = "Union" -> Of(e.members)
         [] e.kind = "Intersection" -> Of(e.members)

\* a successful emission that renders two references to one definition
\* with different generic arguments, where a declared definition is
\* referred to in a generic argument and nowhere else
C3_Witness ==
    /\ DoneOk
    /\ \E r1, r2 \in RenderedRefs :
          /\ r1.info.def = r2.info.def
          /\ r1.info.generic_args # r2.info.generic_args
          /\ r1.info.generic_args # <<>>
          /\ r2.info.generic_args # <<>>
          /\ \E d \in DirectRefs(r2.info.generic_args[1]) :
                /\ d \in DeclaredDefs
                /\ d \notin NonArgRefs(TRef(root))
                /\ \A e \in DeclaredDefs : d \notin NonArgRefs(graph[e].def)

(* ------------------------------- C4 ----------------------------------- *)
IsPrefix(s, t) == Len(s) <= Len(t) /\ SubSeq(t, 1, Len(s)) = s

HeaderPart ==
    IF IsSome(options.header) THEN <<Unwrap(options.header), "\n">> ELSE <<>>
OpenPart ==
    IF IsSome(options.root_namespace)
    THEN <<"export default ", Unwrap(options.root_namespace), ";\n",
           "export namespace ", Unwrap(options.root_namespace), "{\n">>
    ELSE <<>>
DeclsPart ==
    Flatten([i \in 1..Len(decls) |->
                DeclEmit(graph[decls[i].def], options.root_namespace, graph)])
ClosePart == IF IsSome(options.root_namespace) THEN <<"}\n">> ELSE <<>>

\* C4: at every moment the sink holds a prefix of: the header (if Some),
\* the default export and root namespace opening (if root_namespace is
\* Some), the declarations in the order the walker yielded them, the
\* closing brace (iff the namespace was opened); a successful call has
\* written exactly that; with neither header nor root namespace the output
\* is the declarations alone, without default export or wrapping braces.
C4_OutputOrder ==
    /\ IsPrefix(sink, HeaderPart \o OpenPart \o DeclsPart \o ClosePart)
    /\ pc \in {"emit_type", "walk", "close"} => IsPrefix(HeaderPart \o OpenPart, sink)
    /\ DoneOk =>
         /\ sink = HeaderPart \o OpenPart \o DeclsPart \o ClosePart
         /\ (options.header = None /\ options.root_namespace = None) =>
               /\ sink = DeclsPart
               /\ CountTok(sink, "export default ") = 0
               /\ CountTok(sink, "{\n") = 0
               /\ CountTok(sink, "}\n") = 0

\* a successful emission of two or more declarations with header and root
\* namespace both configured
C4_Witness ==
    /\ DoneOk
    /\ IsSome(options.header)
    /\ IsSome(options.root_namespace)
    /\ Len(decls) >= 2
    /\ sink[Len(sink)] = "}\n"

(* ------------------------------- C5 ----------------------------------- *)
\* C5: the step on which a write fails ends the call with the error and no
\* Stats; nothing is written after a failure; and no step of a call takes
\* back text the sink already holds.
C5_FailurePropagates ==
    [][/\ ioerr' => (pc' = "done" /\ result' = Err)
       /\ (result'.tag = "Ok") => ~ioerr'
       /\ run' = run => IsPrefix(sink, sink')
       /\ (ioerr /\ run' = run) => sink' = sink]_vars

\* a call that failed in the middle of a declaration, after the header and
\* the root namespace opening went through
C5_Witness ==
    /\ ioerr
    /\ pc = "done"
    /\ result = Err
    /\ decls # <<>>
    /\ decls[Len(decls)].to > decls[Len(decls)].from
    /\ IsPrefix(HeaderPart \o OpenPart, sink)
    /\ stack # <<>>

(* ------------------------------- C6 ----------------------------------- *)
\* the text of the i-th declaration after its docs block
DeclAfterDocs(i) ==
    LET n == Len(OptDocsEmit(graph[decls[i].def].docs))
    IN SubSeq(DeclText(i), n + 1, Len(DeclText(i)))

\* C6: in a successful emission a declaration whose path is empty is the
\* bare `export type` statement, with no namespace block of its own; a
\* declaration whose path is not empty is wrapped in exactly one namespace
\* block, named by the path segments joined with `.`, opened before and
\* closed after that one statement.
C6_Namespacing ==
    DoneOk =>
      \A i \in 1..Len(decls) :
        LET path == graph[decls[i].def].path
            t == DeclAfterDocs(i)
        IN IF path = <<>>
           THEN /\ StartsWith(t, <<"export type ", graph[decls[i].def].name>>)
                /\ EndsWith(t, <<";", "\n">>)
                /\ CountTok(t, "export namespace ") = 0
           ELSE /\ StartsWith(t, <<"export namespace ">>
                                   \o Interleave([j \in 1..Len(path) |-> <<path[j]>>], ".")
                                   \o <<"{", "export type ", graph[decls[i].def].name>>)
                /\ EndsWith(t, <<";", "}", "\n">>)
                /\ CountTok(t, "export namespace ") = 1
                /\ CountTok(t, "export type ") = 1

\* a successful emission with a declaration under a two-segment path and
\* one with an empty path
C6_Witness ==
    /\ DoneOk
    /\ \E i \in 1..Len(decls) : Len(graph[decls[i].def].path) >= 2
    /\ \E i \in 1..Len(decls) : graph[decls[i].def].path = <<>>

(* ------------------------------- C7 ----------------------------------- *)
\* C7: a second successful call on the same graph with the same options
\* writes the same text and returns the same count as a successful first
\* call; every call starts with the counter at 0, nothing visited and
\* nothing declared.
C7_Deterministic ==
    /\ (DoneOk /\ run = "second" /\ IsSome(prev)) =>
          /\ sink = Unwrap(prev).sink
          /\ result = Unwrap(prev).result
    /\ pc \in {"header", "open", "emit_type"} =>
          /\ stats = 0
          /\ decls = <<>>
          /\ visited = {}
    /\ pc = "header" => sink = <<>>

\* a second successful call, after a successful first one, that declared
\* two or more definitions
C7_Witness ==
    /\ DoneOk
    /\ run = "second"
    /\ IsSome(prev)
    /\ result.stats >= 2
    /\ Len(sink) > 0

(* ------------------------------- C10 ---------------------------------- *)
NotDot(tok) == tok # "."
FirstIndex(t, tok) == CHOOSE k \in 1..Len(t) : t[k] = tok /\ \A m \in 1..(k - 1) : t[m] # tok

\* the name of the root namespace block that is open where the
\* declarations stand, read off the sink
RootBlockInSink ==
    LET pre == SubSeq(sink, 1, decls[1].from - 1)
    IN IF \E k \in 1..(Len(pre) - 2) : pre[k] = "export namespace " /\ pre[k + 2] = "{\n"
       THEN <<pre[(CHOOSE k \in 1..(Len(pre) - 2) :
                     pre[k] = "export namespace " /\ pre[k + 2] = "{\n") + 1]>>
       ELSE <<>>

\* where the i-th declaration declares its name, read off the sink: the
\* root block, the segments of the declaration's own namespace block, the
\* declared name
DeclQualName(i) ==
    LET t == DeclAfterDocs(i)
        own == IF t[1] = "export namespace "
               THEN SelectSeq(SubSeq(t, 2, FirstIndex(t, "{") - 1), NotDot)
               ELSE <<>>
    IN RootBlockInSink \o own \o <<t[FirstIndex(t, "export type ") + 1]>>

\* the segments of the dotted name written for a reference to d
UseQualName(d) ==
    SelectSeq(TypeExprEmit(RefD(d, <<>>), options.root_namespace, graph), NotDot)

RECURSIVE SubExprs(_)
\* an expression and every expression nested in it
SubExprs(e) ==
    LET Of(es) == UNION {SubExprs(es[i]) : i \in 1..Len(es)}
    IN {e} \cup
       CASE e.kind = "Ref" ->
              IF e.info.tag = "Native" THEN SubExprs(e.info.ref)
              ELSE Of(e.info.generic_args)
         [] e.kind = "Name" -> Of(e.generic_args)
         [] e.kind = "String" -> {}
         [] e.kind = "Tuple" -> Of(e.elements)
         [] e.kind = "Object" ->
              UNION {SubExprs(e.fields[i].type) : i \in 1..Len(e.fields)}
         [] e.kind = "Array" -> SubExprs(e.item)
         [] e.kind = "Union" -> Of(e.members)
         [] e.kind = "Intersection" -> Of(e.members)

\* the index of the declaration of the root definition
RootDecl == CHOOSE i \in 1..Len(decls) : decls[i].def = root.def

\* the text between `=` and the closing `;` of the i-th declaration
BodyText(i) ==
    LET t == DeclAfterDocs(i)
        tail == IF graph[decls[i].def].path = <<>> THEN 2 ELSE 3
    IN SubSeq(t, FirstIndex(t, "=") + 1, Len(t) - tail)

Rendered(e) == TypeExprEmit(e, options.root_namespace, graph)
DocsBlock(e) == OptDocsEmit(e.docs)

\* C8: in the output, a Union without members is its docs block (if any)
\* followed by the keyword never, an Intersection without members by the
\* keyword any, neither in parentheses; a Union or Intersection with
\* members is `(`, the members in input order joined by `|` (resp. `&`),
\* `)`; Union([String("a"), String("b")]) is ("a"|"b").
C8_UnionIntersection ==
    DoneOk =>
      /\ BodyText(RootDecl) = Rendered(graph[root.def].def)
      /\ \A e \in SubExprs(graph[root.def].def) :
            /\ e.kind \in {"Union", "Intersection"} =>
                  /\ IsInfix(Rendered(e), BodyText(RootDecl))
                  /\ Rendered(e) =
                       DocsBlock(e)
                       \o (IF e.members = <<>>
                           THEN <<IF e.kind = "Union" THEN "never" ELSE "any">>
                           ELSE <<"(">>
                                \o Interleave(Renders(e.members),
                                              IF e.kind = "Union" THEN "|" ELSE "&")
                                \o <<")">>)
            /\ e = TUnion(None, <<TStringLit("a"), TStringLit("b")>>) =>
                  Rendered(e) = <<"(", "\"a\"", "|", "\"b\"", ")">>

\* a successful emission of a body that holds an empty union, an empty
\* intersection and the union of "a" and "b"
C8_Witness ==
    /\ DoneOk
    /\ graph[root.def].def = DegenerateSample
    /\ IsInfix(<<"[", "never", ",", "(", "(", "\"a\"", "|", "\"b\"", ")", "&", "any", ")", "]">>,
               sink)

\* the list an expression holds, its separator, and what stands around the
\* joined elements
ListOf(e) ==
    CASE e.kind = "Tuple" -> e.elements
      [] e.kind = "Union" -> e.members
      [] e.kind = "Intersection" -> e.members
      [] e.kind = "Name" -> e.generic_args
      [] e.kind = "Ref" -> e.info.generic_args
SepOf(e) ==
    CASE e.kind = "Union" -> "|"
      [] e.kind = "Intersection" -> "&"
      [] OTHER -> ","
HasList(e) ==
    \/ e.kind \in {"Tuple", "Name"}
    \/ e.kind \in {"Union", "Intersection"} /\ e.members # <<>>
    \/ IsDefinedRef(e)
BeforeList(e) ==
    CASE e.kind = "Tuple" -> DocsBlock(e) \o <<"[">>
      [] e.kind \in {"Union", "Intersection"} -> DocsBlock(e) \o <<"(">>
      [] e.kind = "Name" ->
           Flatten([i \in 1..Len(e.path) |-> <<e.path[i], ".">>]) \o <<e.name>>
           \o (IF e.generic_args = <<>> THEN <<>> ELSE <<"<">>)
      [] e.kind = "Ref" ->
           UseSiteName(e.info.def)
           \o (IF e.info.generic_args = <<>> THEN <<>> ELSE <<"<">>)
AfterList(e) ==
    CASE e.kind = "Tuple" -> <<"]">>
      [] e.kind \in {"Union", "Intersection"} -> <<")">>
      [] OTHER -> IF ListOf(e) = <<>> THEN <<>> ELSE <<">">>

SumCount(parts, tok) ==
    LET f[i \in 0..Len(parts)] ==
          IF i = 0 THEN 0 ELSE f[i - 1] + CountTok(parts[i], tok)
    IN f[Len(parts)]

\* C9: in the output every list of n elements (tuple elements, union and
\* intersection members, generic arguments, the namespace path of a
\* declaration) is its elements in input order with the separator between
\* consecutive elements only, n-1 times for n >= 1; a generic-argument or
\* generic-variable list is in angle brackets when it has elements and is
\* nothing at all when it has none.
C9_SeparatedLists ==
    DoneOk =>
      LET def == graph[root.def]
          t == DeclAfterDocs(RootDecl)
          gvars == [j \in 1..Len(def.generic_vars) |-> <<def.generic_vars[j]>>]
          segs == [j \in 1..Len(def.path) |-> <<def.path[j]>>]
      IN /\ \A e \in SubExprs(def.def) :
               HasList(e) =>
                 LET parts == Renders(ListOf(e))
                     n == Len(parts)
                 IN /\ IsInfix(Rendered(e), BodyText(RootDecl))
                    /\ Rendered(e) = BeforeList(e) \o Interleave(parts, SepOf(e))
                                       \o AfterList(e)
                    /\ CountTok(Rendered(e), SepOf(e)) =
                         (IF n = 0 THEN 0 ELSE n - 1) + SumCount(parts, SepOf(e))
                    /\ (e.kind \in {"Name", "Ref"} /\ n = 0) =>
                         /\ CountTok(Rendered(e), "<") = 0
                         /\ CountTok(Rendered(e), ">") = 0
         /\ IsInfix(<<"export type ", def.name>> \o Angle(gvars) \o <<"=">>, t)
         /\ def.generic_vars = <<>> =>
               IsInfix(<<"export type ", def.name, "=">>, t)
         /\ def.path # <<>> =>
               /\ StartsWith(t, <<"export namespace ">> \o Interleave(segs, ".") \o <<"{">>)
               /\ CountTok(SubSeq(t, 1, FirstIndex(t, "{")), ".") = Len(segs) - 1

\* a successful emission of a declaration with a two-segment path and two
\* generic variables whose body is a tuple of two or more elements
C9_Witness ==
    /\ DoneOk
    /\ Len(graph[root.def].path) >= 2
    /\ Len(graph[root.def].generic_vars) >= 2
    /\ graph[root.def].def.kind = "Tuple"
    /\ Len(graph[root.def].def.elements) >= 2
    /\ CountTok(BodyText(RootDecl), ",") = Len(graph[root.def].def.elements) - 1

====
